---- MODULE Spec2Model ----
(***************************************************************************)
(* vsupdater: the update orchestrator of a Vintage Story server.           *)
(* One run is one process: Updater() is constructed, one click command is  *)
(* dispatched (update / autoupdate / worldbackup), and an exception that   *)
(* escapes the command is handed to display_exception.  Every call it makes*)
(* that touches the file system, the service or the network is one step.   *)
(* Calls into the environment (rmtree, rename, makedirs, requests, tarfile,*)
(* copy2, subprocess) may fail: their outcome is drawn with \E.            *)
(***************************************************************************)
EXTENDS Integers, Sequences, FiniteSets, TLC

\* ------------------------------------------------------------------ bounds
MaxRuns == 2
MaxClock == 2

\* ------------------------------------------------------- version strings
\* A version string is the tuple of its characters.
V123 == <<"1", ".", "2", ".", "3">>
V129 == <<"1", ".", "2", ".", "9">>
V130 == <<"1", ".", "3", ".", "0">>
V12 == <<"1", ".", "2">>

InstalledVersions == {V123, V130}
CatalogVersions == {V123, V129, V130, V12}

\* str.split('.')
RECURSIVE SplitFrom(_, _, _)
SplitFrom(s, i, cur) ==
    IF i > Len(s) THEN <<cur>>
    ELSE IF s[i] = "." THEN <<cur>> \o SplitFrom(s, i + 1, <<>>)
    ELSE SplitFrom(s, i + 1, Append(cur, s[i]))

split(s) == SplitFrom(s, 1, <<>>)

\* '.'.join(parts)
RECURSIVE join(_)
join(parts) ==
    IF Len(parts) = 0 THEN <<>>
    ELSE IF Len(parts) = 1 THEN parts[1]
    ELSE parts[1] \o <<".">> \o join(Tail(parts))

\* v[:2]
FirstTwo(v) == SubSeq(v, 1, IF Len(v) < 2 THEN Len(v) ELSE 2)

get_major_minor(version) == join(FirstTwo(split(version)))

\* mutant: compares the major component only
major_only_equal(ver1, ver2) == split(ver1)[1] = split(ver2)[1]

_is_major_minor_equal(ver1, ver2) == get_major_minor(ver1) = get_major_minor(ver2)

\* ------------------------------------------------------------ file system
None == "None"
NoVersion == <<>>

\* A directory: the version in Info.plist, the server.sh it holds, the
\* downloaded archive vs_server.tar.gz, and the rest of the server files.
NoDir == [plist |-> NoVersion, sh |-> None, tar |-> "none", body |-> "absent"]
EmptyDir == [plist |-> NoVersion, sh |-> None, tar |-> "none", body |-> "empty"]
Install(v, s, t) == [plist |-> v, sh |-> s, tar |-> t, body |-> "full"]

\* what an interrupted rmtree / extractall leaves behind
Remains(d) == IF d.body = "empty" THEN d ELSE [d EXCEPT !.plist = NoVersion, !.body = "partial"]

exists(d) == d # NoDir

\* path.isfile(server.sh) and path.isfile(Info.plist)
_is_valid_server_path(d) == d # NoDir /\ d.sh # None /\ d.plist # NoVersion

\* ------------------------------------------------------------- exceptions
\* text: the error kinds named by str(e); chain: the kinds named by e and by
\* its __context__ chain (what an uncaught traceback prints).
NoErr == [text |-> {}, chain |-> {}]
Exc(k) == [text |-> {k}, chain |-> {k}]
\* raise Exception(k) while e is being handled
RaiseDuring(k, e) == [text |-> {k}, chain |-> {k} \cup e.chain]
\* raise Exception('... Error message: {}'.format(e)) inside "except ... as e"
Wrap(k, e) == [text |-> {k} \cup e.text, chain |-> {k} \cup e.text \cup e.chain]

VARIABLES
    pc,             \* position of the run
    runs,           \* number of runs started
    cmd,            \* "update" | "autoupdate" | "worldbackup"
    force, safe_update, no_discord,
    verbosity,      \* config['settings']['verbosity_level']
    server_valid, data_valid,
    live,           \* directory at server_fullpath
    backup,         \* directory at backup_fullpath
    serverconfig,   \* data_fullpath/serverconfig.json exists
    worldfile,      \* content of the world save file, or None
    worldBackups,   \* set of [ver, ts, content]: files under worldbackup_fullpath
    clock,          \* datetime.now(), in seconds
    catalog,        \* the file server: [code, listed] (status code, first listed version)
    need_update, cur_version, new_version,
    err,            \* the exception in flight
    reported,       \* error kinds shown to the operator by this run
    trace,          \* events of this run, in order
    pre             \* file system when the run started, and whether the run
                    \* before this one committed an update

vars == <<pc, runs, cmd, force, safe_update, no_discord, verbosity, server_valid,
          data_valid, live, backup, serverconfig, worldfile, worldBackups, clock,
          catalog, need_update, cur_version, new_version, err, reported, trace, pre>>

inputs == <<cmd, force, safe_update, no_discord, verbosity, server_valid, data_valid>>
fs == <<live, backup, serverconfig, worldfile, worldBackups, clock>>
locals == <<need_update, cur_version, new_version>>

Ev(e) == trace' = Append(trace, e)

Happened(e) == \E i \in 1..Len(trace) : trace[i] = e
Count(e) == Cardinality({i \in 1..Len(trace) : trace[i] = e})
\* e1 happened, and every e2 comes after the first e1
Before(e1, e2) ==
    \A j \in 1..Len(trace) : trace[j] = e2 => \E i \in 1..(j - 1) : trace[i] = e1

Init ==
    /\ pc = "idle"
    /\ runs = 0
    /\ cmd = "update" /\ force = FALSE /\ safe_update = FALSE /\ no_discord = FALSE
    /\ verbosity \in {0, 10, 50}
    /\ server_valid = FALSE /\ data_valid = FALSE
    /\ live \in {Install(v, "custom", "none") : v \in InstalledVersions}
                \cup {[Install(V123, "custom", "none") EXCEPT !.sh = None]}
    /\ backup \in {NoDir, Install(V12, "older", "none")}
    /\ serverconfig \in BOOLEAN
    /\ worldfile \in {None, "world"}
    /\ worldBackups = {}
    /\ clock = 0
    /\ catalog \in [code : {200}, listed : CatalogVersions \cup {NoVersion}]
                   \cup {[code |-> 500, listed |-> NoVersion]}
    /\ need_update = FALSE /\ cur_version = NoVersion /\ new_version = NoVersion
    /\ err = NoErr
    /\ reported = {}
    /\ trace = <<>>
    /\ pre = [live |-> live, backup |-> backup, world |-> worldBackups,
              after_commit |-> FALSE]

\* the commands of the click group that the model dispatches
Commands == {"update", "autoupdate", "worldbackup"}

\* where a command starts: worldbackup calls backup_world_file() at once
entry(c) == IF c = "worldbackup" THEN "worldbackup" ELSE "ensure"

\* the world save file as the next run finds it: the game server may have
\* saved the world since the last run
saved_since(w) == IF w = None THEN {None} ELSE {w, "world2"}

\* Updater.__init__ and the click dispatch of one command
Construct ==
    /\ pc \in {"idle", "done"}
    /\ runs < MaxRuns
    /\ runs' = runs + 1
    /\ \E c \in Commands, f \in BOOLEAN, nd \in BOOLEAN :
         /\ c = "worldbackup" => ~f /\ ~nd
         /\ cmd' = c
         /\ force' = IF c = "update" THEN f ELSE FALSE
         /\ safe_update' = IF c = "autoupdate" THEN f ELSE FALSE
         /\ no_discord' = nd
         /\ pc' = entry(c)
    /\ worldfile' \in saved_since(worldfile)
    /\ server_valid' = _is_valid_server_path(live)
    /\ data_valid' = serverconfig
    /\ need_update' = FALSE /\ cur_version' = NoVersion /\ new_version' = NoVersion
    /\ err' = NoErr
    /\ reported' = {}
    /\ trace' = <<>>
    /\ pre' = [live |-> live, backup |-> backup, world |-> worldBackups,
                after_commit |-> Happened("committed")]
    /\ UNCHANGED <<verbosity, live, backup, serverconfig, worldBackups, clock, catalog>>

\* ensure_valid_server_path(); ensure_valid_data_path() at the head of
\* perform_update / perform_auto_update
ensure_valid_paths ==
    /\ pc = "ensure"
    /\ IF server_valid /\ data_valid
         THEN pc' = "check" /\ UNCHANGED <<err, trace>>
         ELSE pc' = "display" /\ err' = Exc("InvalidPath") /\ Ev("raise")
    /\ UNCHANGED <<runs, inputs, fs, catalog, locals, reported, pre>>

\* "if need_update or force" (perform_update) and "if need_update"
\* (perform_auto_update): where the command goes after check_for_update
\* mutant: the transaction runs whatever the check said
update_always(c, need, f) == IF c = "update" THEN "swap" ELSE "gate"

\* mutant: --force is not looked at
check_ignores_force(c, need, f) ==
    IF c = "update" THEN (IF need THEN "swap" ELSE "done")
    ELSE (IF need THEN "gate" ELSE "done")

after_check(c, need, f) ==
    IF c = "update"
      THEN (IF need \/ f THEN "swap" ELSE "done")
      ELSE (IF need THEN "gate" ELSE "done")

\* check_for_update(), with get_last_version() and get_current_version()
check_for_update ==
    /\ pc = "check"
    /\ IF ~server_valid
         THEN /\ err' = Exc("InvalidPath") /\ pc' = "display" /\ Ev("raise")
              /\ UNCHANGED locals
       ELSE IF catalog.code # 200
         THEN /\ err' = Exc("RemoteUnavailable") /\ pc' = "display" /\ Ev("raise")
              /\ UNCHANGED locals
       ELSE IF catalog.listed = NoVersion
         THEN /\ err' = Exc("VersionNotFound") /\ pc' = "display" /\ Ev("raise")
              /\ UNCHANGED locals
       ELSE /\ cur_version' = live.plist
            /\ new_version' = catalog.listed
            /\ need_update' = (live.plist # catalog.listed)
            /\ Ev(IF live.plist = catalog.listed THEN "echo_latest" ELSE "echo_outdated")
            /\ pc' = after_check(cmd, need_update', force)
            /\ err' = err
    /\ UNCHANGED <<runs, inputs, fs, catalog, reported, pre>>

\* the --safe-update gate of perform_auto_update
safe_update_gate ==
    /\ pc = "gate"
    /\ IF safe_update /\ ~_is_major_minor_equal(cur_version, new_version)
         THEN err' = Exc("UnsafeUpgradeBlocked") /\ pc' = "display" /\ Ev("blocked")
         ELSE err' = err /\ pc' = "stop" /\ trace' = trace
    /\ UNCHANGED <<runs, inputs, fs, catalog, locals, reported, pre>>

\* send_to_server(verb): runs server_fullpath/server.sh; subprocess.run raises
\* when the script is not there, otherwise the script's exit code decides
script_runs(d) == d # NoDir /\ d.sh # None

\* where perform_auto_update goes when server_stop() returned (ok) or raised:
\* the call stands before the try block, so its error leaves the command at once
\* mutant: server_stop() inside the try block
stop_in_try(ok) == IF ok THEN "worldbackup" ELSE "start"

after_stop(ok) == IF ok THEN "worldbackup" ELSE "display"

\* server_stop()
server_stop ==
    /\ pc = "stop"
    /\ \E code \in {0, 1} :
         IF script_runs(live) /\ code = 0
           THEN err' = err /\ pc' = after_stop(TRUE) /\ Ev("stop_ok")
           ELSE err' = Exc("StopFailed") /\ pc' = after_stop(FALSE) /\ Ev("stop_fail")
    /\ UNCHANGED <<runs, inputs, fs, catalog, locals, reported, pre>>

\* where an exception raised inside "try: backup_world_file(); update_server()"
\* goes: the finally clause of perform_auto_update, or (manual update, no try)
\* straight to the command's handler
\* mutant: no finally clause
skip_finally(c) == "display"

on_error(c) == IF c = "autoupdate" THEN "start" ELSE "display"

\* where perform_auto_update goes when backup_world_file() returned
\* mutant: the error of backup_world_file() is dropped
skip_world_check(ok) == "swap"

after_world_backup(ok) == IF ok THEN "swap" ELSE on_error("autoupdate")

\* where the run goes when backup_world_file() returned (ok) or raised: the
\* worldbackup command ends or reports, perform_auto_update goes on
after_backup(c, ok) ==
    IF c = "worldbackup" THEN (IF ok THEN "done" ELSE "display")
    ELSE after_world_backup(ok)

\* makedirs(<root>/<version>/<timestamp>); copy2(world file, there)
store_backup(set, v, t, content) ==
    {b \in set : ~(b.ver = v /\ b.ts = t)} \cup {[ver |-> v, ts |-> t, content |-> content]}

\* backup_world_file()
backup_world_file ==
    /\ pc = "worldbackup"
    /\ \E t \in {clock, clock + 1}, io \in BOOLEAN :
         /\ t <= MaxClock
         /\ clock' = t
         /\ IF ~(server_valid /\ data_valid)
              THEN /\ err' = Exc("InvalidPath") /\ Ev("wb_fail")
                   /\ pc' = after_backup(cmd, FALSE)
                   /\ UNCHANGED worldBackups
            ELSE IF worldfile = None
              THEN /\ err' = Exc("WorldFileMissing") /\ Ev("wb_fail")
                   /\ pc' = after_backup(cmd, FALSE)
                   /\ UNCHANGED worldBackups
            ELSE IF ~io
              THEN /\ err' = Exc("WorldBackupIO") /\ Ev("wb_fail")
                   /\ pc' = after_backup(cmd, FALSE)
                   /\ UNCHANGED worldBackups
            ELSE /\ worldBackups' = store_backup(worldBackups, live.plist, t, worldfile)
                 /\ err' = err /\ Ev("wb_ok")
                 /\ pc' = after_backup(cmd, TRUE)
    /\ UNCHANGED <<runs, inputs, live, backup, serverconfig, worldfile, catalog, locals,
                   reported, pre>>

\* swap_server_folders(): the directories it leaves and the error it raises;
\* f names the call that fails ("ok": none)
\* mutant: the old backup is removed before the live directory is looked at
swap_delete_first(l, b, f) ==
    IF ~exists(l)
      THEN [live |-> l, backup |-> NoDir, raised |-> "InstallationMissing"]
    ELSE IF exists(b) /\ f = "rmtree"
      THEN [live |-> l, backup |-> Remains(b), raised |-> "RotateIO"]
    ELSE IF f = "rename"
      THEN [live |-> l, backup |-> NoDir, raised |-> "RotateIO"]
    ELSE IF f = "makedirs"
      THEN [live |-> NoDir, backup |-> l, raised |-> "RotateIO"]
    ELSE [live |-> EmptyDir, backup |-> l, raised |-> None]

\* mutant: the backup directory is cleared after the rename, not before
swap_delete_after_rename(l, b, f) ==
    IF ~exists(l)
      THEN [live |-> l, backup |-> b, raised |-> "InstallationMissing"]
    ELSE IF exists(b) /\ f = "rmtree"
      THEN [live |-> l, backup |-> Remains(b), raised |-> "RotateIO"]
    ELSE IF f = "rename"
      THEN [live |-> l, backup |-> NoDir, raised |-> "RotateIO"]
    ELSE IF f = "makedirs"
      THEN [live |-> NoDir, backup |-> NoDir, raised |-> "RotateIO"]
    ELSE [live |-> EmptyDir, backup |-> NoDir, raised |-> None]

swap_result(l, b, f) ==
    IF ~exists(l)
      THEN [live |-> l, backup |-> b, raised |-> "InstallationMissing"]
    ELSE IF exists(b) /\ f = "rmtree"
      THEN [live |-> l, backup |-> Remains(b), raised |-> "RotateIO"]
    ELSE IF f = "rename"
      THEN [live |-> l, backup |-> NoDir, raised |-> "RotateIO"]
    ELSE IF f = "makedirs"
      THEN [live |-> NoDir, backup |-> l, raised |-> "RotateIO"]
    ELSE [live |-> EmptyDir, backup |-> l, raised |-> None]

\* update_server() up to the try block: ensure_valid_*_path() and
\* swap_server_folders(), outside the try
swap_server_folders ==
    /\ pc = "swap"
    /\ \E f \in {"ok", "rmtree", "rename", "makedirs"} :
         /\ f = "rmtree" => exists(backup)
         /\ IF ~(server_valid /\ data_valid)
              THEN /\ err' = Exc("InvalidPath") /\ pc' = on_error(cmd) /\ Ev("raise")
                   /\ UNCHANGED <<live, backup>>
              ELSE LET r == swap_result(live, backup, f) IN
                   /\ live' = r.live
                   /\ backup' = r.backup
                   /\ IF r.raised = None
                        THEN err' = err /\ pc' = "download" /\ Ev("rotated")
                        ELSE /\ err' = Exc(r.raised) /\ pc' = on_error(cmd)
                             /\ Ev("swap_fail_" \o f)
    /\ UNCHANGED <<runs, inputs, serverconfig, worldfile, worldBackups, clock, catalog,
                   locals, reported, pre>>

\* download_server(version)
download_server ==
    /\ pc = "download"
    /\ \E o \in {"ok", "status", "io"} :
         /\ live' = IF o = "ok" THEN [live EXCEPT !.tar = "full"]
                    ELSE IF o = "io" THEN [live EXCEPT !.tar = "partial"]
                    ELSE live
         /\ IF o = "ok"
              THEN err' = err /\ pc' = "unpack" /\ trace' = trace
              ELSE /\ err' = Exc(IF o = "status" THEN "RemoteUnavailable" ELSE "DownloadIO")
                   /\ pc' = "rollback" /\ Ev("download_fail")
    /\ UNCHANGED <<runs, inputs, backup, serverconfig, worldfile, worldBackups, clock,
                   catalog, locals, reported, pre>>

\* what tar.extractall() of the archive of version v puts into d
extracted(d, v) == [plist |-> v, sh |-> "default", tar |-> d.tar, body |-> "full"]

\* unpack_server()
unpack_server ==
    /\ pc = "unpack"
    /\ \E o \in {"ok", "open", "extract"} :
         /\ live' = IF o = "ok" THEN extracted(live, new_version)
                    ELSE IF o = "extract" THEN Remains(extracted(live, new_version))
                    ELSE live
         /\ IF o = "ok"
              THEN err' = err /\ pc' = "patch" /\ trace' = trace
              ELSE /\ err' = Exc("ArchiveExtractionFailed")
                   /\ pc' = "rollback" /\ Ev("unpack_fail")
    /\ UNCHANGED <<runs, inputs, backup, serverconfig, worldfile, worldBackups, clock,
                   catalog, locals, reported, pre>>

\* where the command goes when update_server() returned without an exception
after_update_ok(c, nd) ==
    IF c = "autoupdate" THEN "start" ELSE IF nd THEN "done" ELSE "notify"

\* patch_server(): copy2(backup/server.sh, live) when the backup has one
\* mutant: Info.plist is copied from the backup as well
patched_with_plist(l, b) ==
    IF b.sh # None THEN [l EXCEPT !.sh = b.sh, !.plist = b.plist] ELSE l

\* mutant: nothing is copied
never_patched(l, b) == l

patched(l, b) == IF b.sh # None THEN [l EXCEPT !.sh = b.sh] ELSE l

patch_server ==
    /\ pc = "patch"
    /\ \E o \in {"ok", "copy"} :
         /\ o = "copy" => backup.sh # None
         /\ IF o = "ok"
              THEN /\ live' = patched(live, backup)
                   /\ err' = err /\ pc' = after_update_ok(cmd, no_discord)
                   /\ Ev("committed")
              ELSE /\ live' = live
                   /\ err' = Exc("PatchFailed") /\ pc' = "rollback" /\ Ev("patch_fail")
    /\ UNCHANGED <<runs, inputs, backup, serverconfig, worldfile, worldBackups, clock,
                   catalog, locals, reported, pre>>

\* the except clause of update_server(): rmtree(live) if it exists, then
\* rename(backup, live), then raise; o names the call that fails ("ok": none)
\* mutant: the partial directory is removed but the backup is not renamed back
rollback_without_rename(l, b, o) ==
    IF exists(l) /\ o = "rmtree"
      THEN [live |-> Remains(l), backup |-> b, ok |-> FALSE,
            events |-> <<"rb_rmtree_fail">>]
    ELSE IF o = "rename"
      THEN [live |-> NoDir, backup |-> b, ok |-> FALSE,
            events |-> <<"rb_rename", "rb_rename_fail">>]
    ELSE [live |-> NoDir, backup |-> b, ok |-> TRUE,
          events |-> <<"rb_rename", "rolled_back">>]

\* mutant: the backup is copied back, not renamed
rollback_keeps_backup(l, b, o) ==
    IF exists(l) /\ o = "rmtree"
      THEN [live |-> Remains(l), backup |-> b, ok |-> FALSE,
            events |-> <<"rb_rmtree_fail">>]
    ELSE IF o = "rename"
      THEN [live |-> NoDir, backup |-> b, ok |-> FALSE,
            events |-> <<"rb_rename", "rb_rename_fail">>]
    ELSE [live |-> b, backup |-> b, ok |-> TRUE,
          events |-> <<"rb_rename", "rolled_back">>]

rollback_result(l, b, o) ==
    IF exists(l) /\ o = "rmtree"
      THEN [live |-> Remains(l), backup |-> b, ok |-> FALSE,
            events |-> <<"rb_rmtree_fail">>]
    ELSE IF o = "rename"
      THEN [live |-> NoDir, backup |-> b, ok |-> FALSE,
            events |-> <<"rb_rename", "rb_rename_fail">>]
    ELSE [live |-> b, backup |-> NoDir, ok |-> TRUE,
          events |-> <<"rb_rename", "rolled_back">>]

\* the exception that leaves the except clause: the wrapping Exception when
\* the restore went through, else the error of the failing call
rollback_error(e, ok) ==
    IF ok THEN Wrap("UpdateFailed", e) ELSE RaiseDuring("RollbackIO", e)

rollback ==
    /\ pc = "rollback"
    /\ \E o \in {"ok", "rmtree", "rename"} :
         LET r == rollback_result(live, backup, o) IN
         /\ live' = r.live
         /\ backup' = r.backup
         /\ trace' = trace \o r.events
         /\ err' = rollback_error(err, r.ok)
         /\ pc' = on_error(cmd)
    /\ UNCHANGED <<runs, inputs, serverconfig, worldfile, worldBackups, clock, catalog,
                   locals, reported, pre>>

\* the finally clause of perform_auto_update: server_start(); when it raises,
\* its exception replaces the one in flight, which becomes its __context__
\* where perform_auto_update goes when server_start() returned: an exception
\* in flight goes on to the command's handler, else "if not no_discord"
\* mutant: the notification does not depend on the exception in flight
notify_despite_error(e, nd) ==
    IF nd THEN (IF e # NoErr THEN "display" ELSE "done") ELSE "notify"

after_start(e, nd) ==
    IF e # NoErr THEN "display" ELSE IF nd THEN "done" ELSE "notify"

server_start ==
    /\ pc = "start"
    /\ \E code \in {0, 1} :
         IF script_runs(live) /\ code = 0
           THEN /\ err' = err /\ Ev("start_ok")
                /\ pc' = after_start(err, no_discord)
           ELSE /\ err' = RaiseDuring("StartFailed", err) /\ Ev("start_fail")
                /\ pc' = "display"
    /\ UNCHANGED <<runs, inputs, fs, catalog, locals, reported, pre>>

\* notify_about_update(version): reads the template, formats it and calls
\* send_to_discord(); a False from send_to_discord is dropped, an exception
\* of open(), format() or requests.post() is not caught
after_notify(o) == IF o = "raised" THEN "display" ELSE "done"

notify_about_update ==
    /\ pc = "notify"
    /\ \E o \in {"sent", "rejected", "unset", "raised"} :
         /\ Ev("notify_" \o o)
         /\ pc' = after_notify(o)
         /\ err' = IF o = "raised" THEN Exc("NotifyFailed") ELSE err
    /\ UNCHANGED <<runs, inputs, fs, catalog, locals, reported, pre>>

\* display_exception(e): what the operator gets to see. n is the outcome of
\* notify_about_error(); when it raises, or at verbosity >= 50 ("raise e"),
\* the process dies with a traceback that prints the whole __context__ chain
shown(v, e, n) ==
    IF v >= 10 /\ n = "raised" THEN e.chain \cup {"ErrorNotifyFailed"}
    ELSE IF v >= 50 THEN e.chain
    ELSE IF v >= 10 THEN e.text
    ELSE {}

display_exception ==
    /\ pc = "display"
    /\ \E n \in {"sent", "rejected", "raised"} :
         /\ verbosity < 10 => n = "sent"
         /\ reported' = shown(verbosity, err, n)
         /\ Ev("display_" \o n)
    /\ pc' = "done"
    /\ UNCHANGED <<runs, inputs, fs, catalog, locals, err, pre>>

Next ==
    \/ Construct
    \/ ensure_valid_paths
    \/ check_for_update
    \/ safe_update_gate
    \/ server_stop
    \/ backup_world_file
    \/ swap_server_folders
    \/ download_server
    \/ unpack_server
    \/ patch_server
    \/ rollback
    \/ server_start
    \/ notify_about_update
    \/ display_exception

Spec == Init /\ [][Next]_vars

\* -------------------------------------------- the methods called directly
\* swap_server_folders() and patch_server() as methods of their own, called
\* on any pair of directories: update_server() reaches them only behind
\* ensure_valid_server_path(), which hides the cases "no live directory" and
\* "no server.sh in the backup".
UnitDirs ==
    {NoDir, EmptyDir}
        \cup {[Install(V123, "custom", t) EXCEPT !.sh = sh] :
                  sh \in {"custom", None}, t \in {"none", "full"}}
        \cup {extracted([EmptyDir EXCEPT !.tar = "full"], V129)}

InitCalls ==
    /\ pc \in {"swap_call", "patch_call"}
    /\ runs = MaxRuns
    /\ cmd = "update" /\ force = FALSE /\ safe_update = FALSE /\ no_discord = FALSE
    /\ verbosity = 10
    /\ server_valid = FALSE /\ data_valid = FALSE
    /\ live \in UnitDirs
    /\ backup \in UnitDirs
    /\ pc = "patch_call" => exists(live)
    /\ serverconfig = TRUE
    /\ worldfile = "world"
    /\ worldBackups = {}
    /\ clock = 0
    /\ catalog = [code |-> 200, listed |-> V129]
    /\ need_update = FALSE /\ cur_version = NoVersion /\ new_version = NoVersion
    /\ err = NoErr
    /\ reported = {}
    /\ trace = <<>>
    /\ pre = [live |-> live, backup |-> backup, world |-> worldBackups,
              after_commit |-> FALSE]

\* swap_server_folders(), called directly
call_swap_server_folders ==
    /\ pc = "swap_call"
    /\ \E f \in {"ok", "rmtree", "rename", "makedirs"} :
         /\ f = "rmtree" => exists(backup)
         /\ LET r == swap_result(live, backup, f) IN
            /\ live' = r.live
            /\ backup' = r.backup
            /\ err' = IF r.raised = None THEN err ELSE Exc(r.raised)
            /\ Ev(IF r.raised = None THEN "rotated"
                  ELSE IF r.raised = "InstallationMissing" THEN "swap_missing"
                  ELSE "swap_fail_" \o f)
    /\ pc' = "swap_returned"
    /\ UNCHANGED <<runs, inputs, serverconfig, worldfile, worldBackups, clock, catalog,
                   locals, reported, pre>>

\* patch_server(), called directly
call_patch_server ==
    /\ pc = "patch_call"
    /\ \E o \in {"ok", "copy"} :
         /\ o = "copy" => backup.sh # None
         /\ IF o = "ok"
              THEN live' = patched(live, backup) /\ err' = err /\ Ev("patched")
              ELSE live' = live /\ err' = Exc("PatchFailed") /\ Ev("patch_fail")
    /\ pc' = "patch_returned"
    /\ UNCHANGED <<runs, inputs, backup, serverconfig, worldfile, worldBackups, clock,
                   catalog, locals, reported, pre>>

InitAll == Init \/ InitCalls

NextAll == Next \/ call_swap_server_folders \/ call_patch_server

SpecCalls == InitAll /\ [][NextAll]_vars

TypeOK ==
    /\ pc \in {"swap_call", "swap_returned", "patch_call", "patch_returned", "idle", "ensure", "check", "gate", "stop", "worldbackup", "swap",
               "download", "unpack", "patch", "rollback", "start", "notify",
               "display", "done"}
    /\ runs \in 0..MaxRuns
    /\ clock \in 0..MaxClock
\* ------------------------------------------------------------------ claims
StepFailed == Happened("download_fail") \/ Happened("unpack_fail") \/ Happened("patch_fail")
RollbackFaulted == Happened("rb_rmtree_fail") \/ Happened("rb_rename_fail")
StartAttempts == Count("start_ok") + Count("start_fail")
SwapEvents == {"rotated", "swap_fail_rmtree", "swap_fail_rename", "swap_fail_makedirs"}
Swapped == \E e \in SwapEvents : Happened(e)
AfterTransaction == pc \in {"start", "notify", "display", "done"}
\* the complete new installation of this run: the archive of new_version,
\* extracted into the fresh directory, with the old server.sh copied over
CompleteNew == patched(extracted([EmptyDir EXCEPT !.tar = "full"], new_version), pre.live)
StepErrors == {"RemoteUnavailable", "DownloadIO", "ArchiveExtractionFailed", "PatchFailed"}
TransactionErrors ==
    StepErrors \cup {"InvalidPath", "WorldFileMissing", "WorldBackupIO", "RotateIO",
                     "InstallationMissing", "UpdateFailed", "RollbackIO"}

\* C1: when the rotation succeeded, download, extraction or patch failed and
\* no call of the rollback failed, the live directory holds, from the end of
\* the rollback on, exactly what it held when the run started.
C1_RollbackRestoresInstallation ==
    (AfterTransaction /\ Happened("rotated") /\ StepFailed /\ ~RollbackFaulted)
        => live = pre.live

C1_Witness ==
    /\ pc = "done" /\ Happened("rotated") /\ Happened("patch_fail")
    /\ Happened("rolled_back") /\ live = pre.live /\ pre.backup # NoDir

\* C2: when a run is over, the live path holds the complete old installation
\* or the complete new one, whatever failed.
C2_LiveIsOldOrNew ==
    pc = "done" => (live = pre.live \/ live = CompleteNew)

\* C3: when the paths are valid, the catalog answers, the installed version
\* equals the listed one and force is not set, the finished update or
\* autoupdate run has echoed
\* "is latest" and nothing else happened: no step of the transaction, no
\* stop or start, no world backup, no notification, no error, and the file
\* system is as it was.
C3_UpToDateDoesNothing ==
    (/\ pc = "done" /\ cmd \in {"update", "autoupdate"} /\ server_valid /\ data_valid
     /\ catalog.code = 200 /\ pre.live.plist = catalog.listed /\ ~force)
        => /\ trace = <<"echo_latest">>
           /\ live = pre.live /\ backup = pre.backup /\ worldBackups = pre.world
           /\ reported = {} /\ err = NoErr

C3_Witness ==
    /\ pc = "done" /\ cmd = "autoupdate" /\ trace = <<"echo_latest">>
    /\ cur_version = V130 /\ new_version = V130 /\ backup # NoDir

\* the first two dot-separated components of a and b differ
FirstTwoDiffer(a, b) ==
    \E i \in 1..2 :
        \/ (i <= Len(split(a))) # (i <= Len(split(b)))
        \/ i <= Len(split(a)) /\ i <= Len(split(b)) /\ split(a)[i] # split(b)[i]

\* C4: in autoupdate with --safe-update, once the check has found the two
\* versions, the run is blocked exactly when their first two components
\* differ (1.2.3 -> 1.2.9 passes, 1.2.3 -> 1.3.0 is blocked); a blocked run
\* ends with the UnsafeUpgradeBlocked error and has not stopped the service,
\* taken a world backup or touched the directories.
C4_SafeUpdateGate ==
    (/\ cmd = "autoupdate" /\ safe_update /\ new_version # NoVersion
     /\ pc \notin {"check", "gate"})
        => /\ Happened("blocked") <=> FirstTwoDiffer(cur_version, new_version)
           /\ (cur_version = V123 /\ new_version = V129) => ~Happened("blocked")
           /\ (cur_version = V123 /\ new_version = V130) => Happened("blocked")
           /\ Happened("blocked") =>
                /\ trace = <<"echo_outdated", "blocked">> \/
                   trace = <<"echo_outdated", "blocked", "display_sent">> \/
                   trace = <<"echo_outdated", "blocked", "display_rejected">> \/
                   trace = <<"echo_outdated", "blocked", "display_raised">>
                /\ err.text = {"UnsafeUpgradeBlocked"}
                /\ live = pre.live /\ backup = pre.backup /\ worldBackups = pre.world

C4_Witness ==
    /\ pc = "done" /\ cmd = "autoupdate" /\ safe_update /\ Happened("blocked")
    /\ cur_version = V123 /\ new_version = V130

\* C5: in autoupdate, the service is never started more than once or before
\* a successful stop, and a finished run whose stop succeeded has attempted
\* the start exactly once, whatever the world backup, the transaction and the
\* rollback did.
C5_StartOnceAfterStop ==
    cmd = "autoupdate" =>
        /\ StartAttempts <= 1
        /\ Before("stop_ok", "start_ok") /\ Before("stop_ok", "start_fail")
        /\ (Happened("stop_ok") /\ pc \in {"notify", "display", "done"})
              => StartAttempts = 1

C5_Witness ==
    /\ pc = "done" /\ cmd = "autoupdate" /\ Happened("stop_ok")
    /\ Happened("rb_rename_fail") /\ StartAttempts = 1

\* C6: in autoupdate, when the world backup or the transaction failed and the
\* start failed too, a run that reports errors reports both the earlier
\* error and the start failure.
C6_StartFailureKeepsEarlierError ==
    (/\ pc = "done" /\ cmd = "autoupdate" /\ verbosity >= 10
     /\ Happened("start_fail")
     /\ (Happened("wb_fail") \/ Swapped) /\ ~Happened("committed"))
        => /\ "StartFailed" \in reported
           /\ reported \cap TransactionErrors # {}

\* C7: when the transaction committed (and, in autoupdate, the service
\* started) and the success notification then failed or raised, the run
\* reports no error and the new installation stays in place.
C7_NotificationFailureIsSwallowed ==
    (/\ pc = "done" /\ Happened("committed") /\ ~Happened("start_fail")
     /\ (Happened("notify_rejected") \/ Happened("notify_raised")))
        => /\ reported = {}
           /\ live = CompleteNew

\* C8: a rollback whose delete of the live directory failed has still
\* attempted the rename of the backup.
C8_RenameAfterFailedDelete ==
    (AfterTransaction /\ Happened("rb_rmtree_fail")) => Happened("rb_rename")

\* C9: when a step failed and the rollback failed too, a run that reports
\* errors reports the rollback error and the error of the step.
C9_RollbackFailureReportsBoth ==
    (pc = "done" /\ verbosity >= 10 /\ StepFailed /\ RollbackFaulted)
        => /\ "RollbackIO" \in reported
           /\ reported \cap StepErrors # {}

\* C10: in autoupdate, no step of the transaction is reached and neither
\* directory differs from its state at the start of the run unless the world
\* backup of this run succeeded and its file is in the backup tree; a failed
\* world backup leaves the live and the backup directory as they were.
C10_WorldBackupFirst ==
    cmd = "autoupdate" =>
        /\ (\/ pc \in {"swap", "download", "unpack", "patch", "rollback"}
            \/ Swapped \/ live # pre.live \/ backup # pre.backup)
              => /\ Happened("wb_ok")
                 /\ \A e \in SwapEvents : Before("wb_ok", e)
                 /\ \E b \in worldBackups :
                        b.ver = pre.live.plist /\ b.content = worldfile
        /\ Happened("wb_fail") =>
              /\ live = pre.live /\ backup = pre.backup /\ ~Swapped
              /\ worldBackups = pre.world

C10_Witness ==
    /\ pc = "done" /\ cmd = "autoupdate" /\ Happened("wb_fail")
    /\ StartAttempts = 1 /\ pre.backup # NoDir

NotifyEvents == {"notify_sent", "notify_rejected", "notify_unset", "notify_raised"}
SwapFailed ==
    Happened("swap_fail_rmtree") \/ Happened("swap_fail_rename")
        \/ Happened("swap_fail_makedirs")

\* C11: in update --force, once the check has found the two versions, the
\* transaction is started whatever the check said, and a committed
\* transaction has installed the listed version: the installed version
\* again when the two are equal, the latest one when they differ.
C11_ForceReapplies ==
    (cmd = "update" /\ force /\ new_version # NoVersion)
        => /\ pc = "swap" \/ Swapped
           /\ new_version = catalog.listed
           /\ Happened("committed") =>
                live.plist = (IF pre.live.plist = catalog.listed
                                THEN pre.live.plist ELSE catalog.listed)

C11_Witness ==
    /\ pc = "done" /\ cmd = "update" /\ force /\ Happened("echo_latest")
    /\ Happened("committed") /\ live.plist = pre.live.plist

\* C12: in autoupdate, the success notification is attempted only when the
\* gate did not block, the stop, the world backup, the rotation, every step
\* of the transaction and the start succeeded, and only after the start.
C12_NotifyOnlyOnSuccess ==
    (cmd = "autoupdate" /\ (pc = "notify" \/ \E e \in NotifyEvents : Happened(e)))
        => /\ Happened("stop_ok") /\ Happened("wb_ok") /\ Happened("committed")
           /\ Happened("start_ok")
           /\ ~Happened("blocked") /\ ~Happened("stop_fail") /\ ~Happened("wb_fail")
           /\ ~SwapFailed /\ ~StepFailed /\ ~Happened("start_fail")
           /\ \A e \in NotifyEvents : Before("start_ok", e)

C12_Witness ==
    /\ pc = "done" /\ cmd = "autoupdate" /\ Happened("notify_sent")
    /\ Happened("start_ok") /\ live = CompleteNew

\* C13: no step removes a world backup file or changes its content: every
\* world backup that exists still exists, unchanged, after the step.
C13_WorldBackupsKept ==
    [][\A b \in worldBackups : b \in worldBackups']_vars

\* C14: an update or autoupdate run without force that follows a run which
\* committed an update (same catalog) ends having echoed "is latest" and
\* nothing else: no error, and the file system as the run found it.
C14_SecondRunUpToDate ==
    (/\ pc = "done" /\ pre.after_commit /\ cmd \in {"update", "autoupdate"}
     /\ ~force)
        => /\ trace = <<"echo_latest">>
           /\ cur_version = catalog.listed
           /\ live = pre.live /\ backup = pre.backup /\ worldBackups = pre.world
           /\ reported = {} /\ err = NoErr

C14_Witness ==
    /\ pc = "done" /\ pre.after_commit /\ cmd = "autoupdate" /\ runs = 2
    /\ trace = <<"echo_latest">> /\ live.tar = "full"

\* C15: after an error of the rotate step (deleting the old backup, renaming
\* the live directory, creating the new one) the original installation is at
\* the live path.
C15_RotateErrorRestores ==
    (AfterTransaction /\ SwapFailed) => (live = pre.live /\ exists(live))

\* C16: swap_server_folders() on any two directories: without a live
\* directory it raises InstallationMissing and leaves the backup as it was;
\* with one, the old backup is deleted first (a failing delete has renamed
\* nothing), the rename comes second (when it fails the old backup is gone
\* and the live directory untouched), the new directory last (when it fails
\* the live directory is already the backup), and a call without failure
\* leaves the old live directory as the backup and an empty live directory.
C16_RotateOrder ==
    pc = "swap_returned" =>
        IF ~exists(pre.live)
          THEN /\ err.text = {"InstallationMissing"}
               /\ backup = pre.backup /\ live = pre.live
        ELSE /\ Happened("swap_fail_rmtree") =>
                  /\ exists(pre.backup) /\ live = pre.live
                  /\ backup \in {pre.backup, Remains(pre.backup)}
             /\ Happened("swap_fail_rename") => (backup = NoDir /\ live = pre.live)
             /\ Happened("swap_fail_makedirs") => (backup = pre.live /\ live = NoDir)
             /\ Happened("rotated") =>
                  (backup = pre.live /\ live = EmptyDir /\ err = NoErr)
             /\ ~Happened("swap_missing")

C16_Witness ==
    /\ pc = "swap_returned" /\ ~exists(pre.live) /\ exists(pre.backup)
    /\ backup = pre.backup /\ pre.backup.body = "full"

\* C17: from a successful rotation until the transaction ends, the backup
\* directory is the installation the run started with (nothing of an older
\* backup); after a commit it is still there with these contents; after a
\* rollback there is no directory at the backup path.
C17_BackupLifecycle ==
    /\ (Happened("rotated") /\ pc \in {"download", "unpack", "patch", "rollback"})
          => backup = pre.live
    /\ Happened("committed") => (backup = pre.live /\ exists(backup))
    /\ Happened("rolled_back") => backup = NoDir

C17_Witness ==
    /\ pc = "done" /\ Happened("rolled_back") /\ backup = NoDir
    /\ exists(pre.backup) /\ live = pre.live

\* C18: after a commit the live directory holds the server.sh of the
\* installation the run started with; patch_server() on a backup without
\* server.sh raises nothing and leaves the live directory, with the
\* extracted default script, as it was; on a backup with one, it ends with
\* that script in the live directory unless the copy failed.
C18_ControlScriptKept ==
    /\ Happened("committed") => (live.sh = pre.live.sh /\ live.sh # None)
    /\ pc = "patch_returned" =>
          IF pre.backup.sh = None
            THEN err = NoErr /\ live = pre.live
            ELSE err = NoErr => live = [pre.live EXCEPT !.sh = pre.backup.sh]

C18_Witness ==
    /\ pc = "patch_returned" /\ pre.backup.sh = None /\ exists(pre.backup)
    /\ live.sh = "default" /\ err = NoErr

\* C19: after a commit the archive vs_server.tar.gz is not in the live
\* directory.
C19_ArchiveCleanedUp ==
    Happened("committed") => live.tar = "none"

\* C20: when the error notification failed (the webhook rejected it, or
\* notify_about_error raised), a run that reports errors reports what it
\* reports when the notification went through: the error of the failed
\* operation (with its context at verbosity 50) and nothing else.
C20_ErrorNotificationIsolated ==
    (/\ pc = "done" /\ verbosity >= 10
     /\ (Happened("display_rejected") \/ Happened("display_raised")))
        => reported = (IF verbosity >= 50 THEN err.chain ELSE err.text)

RollbackAttempted == Happened("rb_rename") \/ Happened("rb_rmtree_fail")

\* C21: in autoupdate, a run whose stop failed has done nothing else: no
\* world backup, no step of the transaction, no start; it carries the stop
\* error to display_exception, and the live directory, the backup directory
\* and the world backups are as the run found them.
C21_StopFailureEndsRun ==
    (cmd = "autoupdate" /\ Happened("stop_fail"))
        => /\ pc \in {"display", "done"}
           /\ SubSeq(trace, 1, 2) = <<"echo_outdated", "stop_fail">>
           /\ Len(trace) <= 3
           /\ Len(trace) = 3 =>
                trace[3] \in {"display_sent", "display_rejected", "display_raised"}
           /\ StartAttempts = 0 /\ ~Happened("wb_ok") /\ ~Happened("wb_fail")
           /\ ~Swapped
           /\ err.text = {"StopFailed"}
           /\ live = pre.live /\ backup = pre.backup /\ worldBackups = pre.world

C21_Witness ==
    /\ pc = "done" /\ cmd = "autoupdate" /\ Happened("stop_fail")
    /\ exists(pre.backup) /\ backup = pre.backup /\ StartAttempts = 0

\* C22: in autoupdate, when the start is invoked the live directory is the
\* one the run found, or the transaction has committed or attempted its
\* rollback; and after a successful rollback the start runs the server.sh
\* of the restored installation.
C22_StartAfterTransaction ==
    (cmd = "autoupdate" /\ (pc = "start" \/ StartAttempts > 0))
        => /\ live = pre.live \/ Happened("committed") \/ RollbackAttempted
           /\ Happened("rolled_back") => (live = pre.live /\ script_runs(live))

\* C23: in every state of a run the installation the run found is complete
\* at the live path or at the backup path.
C23_OldInstallationKept ==
    live = pre.live \/ backup = pre.live

C23_Witness ==
    /\ pc = "done" /\ Happened("rb_rename_fail") /\ ~exists(live)
    /\ backup = pre.live /\ pre.live.body = "full" /\ exists(pre.backup)
====
